---- MODULE Spec2Model ----
(***************************************************************************)
(* Session lifecycle of supreme-hello-world.                              *)
(*                                                                         *)
(*   Spec         the useSimpleCreditSystem hook                           *)
(*                (src/src/hooks/useSimpleCreditSystem.ts) from mount      *)
(*                through the embedded handshake: the retry interval, the  *)
(*                message listener, login and logout.                      *)
(*   SpecSession  the same hook's authenticated requests:                  *)
(*                makeAuthenticatedRequest with its refresh-and-retry,     *)
(*                interleaved with logout and messages of the parent.      *)
(*   SpecOps      the hook's four operations (checkBalance, spendCredits,  *)
(*                addCredits, getHistory) and what they return.            *)
(*   SpecReplace  the hook receiving one parent session after another,     *)
(*                with balance requests in between.                        *)
(*   SpecAuth     the Auth page with the embedded handshake and the        *)
(*                single 15 s timeout (src/unnamed/part_000).              *)
(*   SpecDemo     the CreditSystemDemo page                                *)
(*                (src/src/components/CreditSystemDemo.tsx): the spend and *)
(*                add forms and the transaction history, in both versions  *)
(*                of the component contained in the file.                  *)
(*                                                                         *)
(* React state (useState) is modelled by its committed value between two   *)
(* event handlers: the setters called in one handler are applied in call   *)
(* order and the last one wins.  Refs and sessionStorage change at once.   *)
(* The registered handleMessage reads isAuthenticated, user and balance     *)
(* through its closure, which is renewed by a later commit (Commit).        *)
(***************************************************************************)
EXTENDS Integers, Sequences, FiniteSets, TLC

\* ------------------------------------------------------------------ bounds
\* messages the parent frame delivers during one page load (Spec, SpecAuth)
MaxMsgs == 3
\* messages the parent frame delivers while requests are in flight (SpecSession)
MaxSessionMsgs == 1
\* consumer operations (login, logout) during one page load
MaxOps == 1
\* JWT_TOKEN_RESPONSE messages accepted during one page load (SpecReplace)
MaxReplaceMsgs == 2
\* largest balance value a backend response carries
MaxBalance == 1
\* cap on REQUEST_JWT_TOKEN messages counted (the code's own bound is lower)
MaxJwtReq == 6

\* handler invocations on the CreditSystemDemo page
MaxDemoOps == 1
\* ------------------------------------------------------------- constants
\* retryCountRef.current < 3
MaxRetries == 3

\* const MAX_CREDIT_LIMIT = 25000
MAX_CREDIT_LIMIT == 25000

\* what parseInt returns for a field that does not start with a number
NaN == -2

Null == "null"

\* the value setBalance receives when the response names no balance (undefined)
NoBalance == -1

\* the literal a missing value becomes when it is written to sessionStorage
Undefined == "undefined"

\* the configured allow-list (VITE_ALLOWED_PARENTS) and the origins tried
allowedOrigins == {"https://parent.example"}

Origins == allowedOrigins \cup {"https://evil.example"}

\* the sessionStorage keys of the hook
Keys == {"supreme_access_token", "supreme_refresh_token", "supreme_user"}

\* the two makeAuthenticatedRequest calls that may be in flight together
CallIds == {1, 2}

\* sessions a parent may hand over: token, refresh token, user
ParentSessions ==
    { [token |-> "A1", refreshToken |-> "R1", user |-> "U1"],
      [token |-> "A2", refreshToken |-> "R2", user |-> "U2"] }

Users == {"U0", "U1", "U2", "UL"}

\* access tokens the refresh endpoint may issue
NewTokens == {"N1", "N2"}

\* JSON.stringify(user); JSON.stringify(undefined) is undefined, and
\* sessionStorage.setItem(key, undefined) stores the string "undefined"
JSONstringify(u) == IF u = Null THEN Undefined ELSE "json:" \o u

\* sessionStorage.setItem coerces its value to a string
ToStorage(v) == IF v = Null THEN Undefined ELSE v

\* JSON.parse succeeds exactly on what JSON.stringify produced for a user
Parsable(s) == \E u \in Users : JSONstringify(u) = s

JSONparse(s) == CHOOSE u \in Users : JSONstringify(u) = s

EmptyStore == [k \in Keys |-> Null]

StoreOf(a, r, u) ==
    [k \in Keys |-> CASE k = "supreme_access_token" -> a
                      [] k = "supreme_refresh_token" -> r
                      [] OTHER -> u]

\* what sessionStorage may hold from before this page load
InitStores ==
    { EmptyStore,
      StoreOf("A0", "R0", JSONstringify("U0")),
      StoreOf("A0", "R0", Undefined),
      StoreOf("A0", "R0", "{garbage") }

\* the types of the messages tried; Null is a message without type (or
\* without data)
MsgTypes == {"JWT_TOKEN_RESPONSE", "REFRESH_BALANCE", "CLEAR_STORAGE",
             "CLEAR_SESSION", "GET_STATUS", "UNKNOWN", Null}

NoPayload == [token |-> Null, refreshToken |-> Null, user |-> Null, error |-> Null]

\* payloads of a JWT_TOKEN_RESPONSE: a full session, a token without user,
\* a session without refresh token, a user without token, an error, or nothing
JwtPayloads ==
    { [token |-> s.token, refreshToken |-> s.refreshToken, user |-> s.user, error |-> Null]
        : s \in ParentSessions }
    \cup { [token |-> s.token, refreshToken |-> s.refreshToken, user |-> Null, error |-> Null]
        : s \in ParentSessions }
    \cup { [token |-> "A1", refreshToken |-> Null, user |-> "U1", error |-> Null],
           [token |-> Null, refreshToken |-> Null, user |-> "U1", error |-> Null],
           [token |-> Null, refreshToken |-> Null, user |-> Null, error |-> "denied"],
           NoPayload }

Event(o, t, p) ==
    [origin |-> o, type |-> t, token |-> p.token, refreshToken |-> p.refreshToken,
     user |-> p.user, error |-> p.error]

Events ==
    { Event(o, "JWT_TOKEN_RESPONSE", p) : o \in Origins, p \in JwtPayloads }
    \cup { Event(o, t, NoPayload) : o \in Origins, t \in MsgTypes \ {"JWT_TOKEN_RESPONSE"} }

\* ------------------------------------------------------------- variables
VARIABLES
    \* --- the hook (useSimpleCreditSystem)
    phase,            \* "init", "mounted" (effects ran once), "ready"
    inIframe,         \* window.self !== window.top
    staleAtLoad,      \* sessionStorage held session keys before this page load
    isEmbedded, isAuthenticated, user, balance, loading, error,   \* useState
    accessTokenRef, refreshTokenRef,                              \* useRef
    sessionStorage,
    retryIntervalRef, \* TRUE while the 15 s interval is set
    retryCountRef,
    initTimer,        \* the 500 ms timeout: "none", "pending", "fired"
    lastTick,         \* branch the interval callback took last
    listening,        \* handleMessage is registered on window
    posted,           \* messages posted to the parent, counted per type
    readyUser,        \* the user field of the last CREDIT_SYSTEM_READY posted
    closure,          \* isAuthenticated, user, balance as closed over by the registered handleMessage
    lastStatus,       \* the payload of the last STATUS_RESPONSE posted
    calls,            \* the makeAuthenticatedRequest calls
    loginPending,
    handled,          \* events handleMessage handled so far
    ops,              \* consumer operations so far
    \* --- the Auth page
    aPhase,           \* "init", "embedded", "standalone", "unmounted"
    aAllowed,         \* allowedOrigins, parsed from VITE_ALLOWED_PARENTS
    aLoading,
    aListening,
    aTimeout,         \* the 15 s timeout: "none", "pending", "fired", "cleared"
    aStore,           \* the creditSystem_* keys of sessionStorage
    aNav,             \* navigate("/dashboard") calls
    aToasts,          \* notifications shown, counted per title
    aPosted,          \* REQUEST_JWT_TOKEN messages posted
    aHandled,         \* events the page's handleMessage handled
    aValidEarly,      \* a valid response was handled before the timeout fired
    aLoginPending,
    aOps,             \* login form submissions
    \* --- the CreditSystemDemo page
    dPhase,           \* "init", "ready"
    demoVersion,      \* 1: the page with the standalone path, 2: the older, SDK-only page
    standaloneMode, standaloneAuthenticated, accessToken, standaloneBalance,   \* useState
    selectedOrg,      \* getSelectedOrganization() finds an organisation
    sdkBalance,       \* the balance useCreditSystem returns
    transactionHistory,
    insufficientBalanceError, creditLimitError, spendSuccess, addSuccess,
    dPc,              \* where the running handler waits
    dReq,             \* what the running handler closed over
    dToast,           \* the error toast on screen
    dFormCleared,     \* the last handler emptied its form
    dOps              \* handler invocations

modeVars == <<phase, inIframe, staleAtLoad, isEmbedded, listening>>

sessionVars == <<accessTokenRef, refreshTokenRef, isAuthenticated, user, balance,
                 error, sessionStorage>>

timerVars == <<retryIntervalRef, retryCountRef, initTimer, lastTick>>

loginVars == <<loading, loginPending, ops>>

statusVars == <<closure, lastStatus>>

hookVars == <<modeVars, sessionVars, timerVars, loginVars, posted, readyUser, closure, lastStatus,
             calls, handled>>

authVars == <<aPhase, aAllowed, aLoading, aListening, aTimeout, aStore, aNav, aToasts, aPosted,
              aHandled, aValidEarly, aLoginPending, aOps>>

demoVars == <<dPhase, demoVersion, standaloneMode, standaloneAuthenticated, accessToken,
              standaloneBalance, selectedOrg, sdkBalance, transactionHistory,
              insufficientBalanceError, creditLimitError, spendSuccess, addSuccess,
              dPc, dReq, dToast, dFormCleared, dOps>>

vars == <<hookVars, authVars, demoVars>>

\* the session as one record, so that effects compose in program order
Session(a, r, au, u, b, e, st) ==
    [at |-> a, rt |-> r, auth |-> au, user |-> u, bal |-> b, err |-> e, store |-> st]

Cur == Session(accessTokenRef, refreshTokenRef, isAuthenticated, user, balance,
               error, sessionStorage)

\* isAuthenticated, user and balance as a render sees them
Snapshot == [auth |-> isAuthenticated, user |-> user, bal |-> balance]

Put(s) ==
    /\ accessTokenRef' = s.at
    /\ refreshTokenRef' = s.rt
    /\ isAuthenticated' = s.auth
    /\ user' = s.user
    /\ balance' = s.bal
    /\ error' = s.err
    /\ sessionStorage' = s.store

\* no STATUS_RESPONSE posted yet
NoStatus == [isAuthenticated |-> FALSE, user |-> "none", balance |-> NoBalance]

NoPosts == [t \in {"REQUEST_JWT_TOKEN", "RELOAD_IFRAME_REQUEST", "CREDIT_SYSTEM_READY",
                   "STATUS_RESPONSE", "BALANCE_UPDATE", "CREDITS_SPENT",
                   "LOGIN_SUCCESS"} |-> 0]

Post(p, t) == [p EXCEPT ![t] = @ + 1]

IdleCall ==
    [pc |-> "idle", op |-> "none", firstN |-> 0, sentTok |-> Null, st1 |-> Null,
     refreshN |-> 0, refOutcome |-> Null,
     newTok |-> Null, retryN |-> 0, retryTok |-> Null, st2 |-> Null, result |-> Null,
     retErr |-> Null, retBal |-> NoBalance, solo |-> TRUE, overlap |-> FALSE,
     authAtStart |-> FALSE]

\* the hook before its first commit
HookInit ==
    /\ phase = "init"
    /\ inIframe \in BOOLEAN
    /\ sessionStorage \in InitStores
    /\ staleAtLoad = (sessionStorage # EmptyStore)
    /\ isEmbedded = FALSE
    /\ isAuthenticated = FALSE
    /\ user = Null
    /\ balance = 0
    /\ loading = FALSE
    /\ error = Null
    /\ accessTokenRef = Null
    /\ refreshTokenRef = Null
    /\ retryIntervalRef = FALSE
    /\ retryCountRef = 0
    /\ initTimer = "none"
    /\ lastTick = "none"
    /\ listening = FALSE
    /\ posted = NoPosts
    /\ readyUser = Null
    /\ closure = [auth |-> FALSE, user |-> Null, bal |-> 0]
    /\ lastStatus = NoStatus
    /\ calls = [c \in CallIds |-> IdleCall]
    /\ loginPending = FALSE
    /\ handled = 0
    /\ ops = 0

AuthKeys == {"creditSystem_accessToken", "creditSystem_refreshToken", "creditSystem_user"}

AuthEmptyStore == [k \in AuthKeys |-> Null]

NoToasts == [t \in {"Auto-login successful", "Authentication failed",
                    "Authentication timeout", "Login successful", "Login failed",
                    "Error"} |-> 0]

\* the Auth page before its first commit
AuthInit ==
    /\ aPhase = "init"
    /\ aAllowed = allowedOrigins
    /\ aLoading = FALSE
    /\ aListening = FALSE
    /\ aTimeout = "none"
    /\ aStore = AuthEmptyStore
    /\ aNav = 0
    /\ aToasts = NoToasts
    /\ aPosted = 0
    /\ aHandled = 0
    /\ aValidEarly = FALSE
    /\ aLoginPending = FALSE
    /\ aOps = 0

\* balances the backend and the SDK report
LedgerValues == {0, 100, 24900}

\* what the user may have typed into an amount field, and into a description
AmountFields == {"", "abc", "0", "50", "150", "150.7", "200"}

Descriptions == {"", " ", "test"}

\* the popups while they are not shown (null)
NoShow == [currentBalance |-> NoBalance, requested |-> 0]

NoDone == [amount |-> 0, newBalance |-> NoBalance]

\* the transactions the backend holds; two of them have the same created_at
Transactions ==
    { [id |-> "tx1", created_at |-> "2024-01-01T00:00:00Z"],
      [id |-> "tx2", created_at |-> "2024-01-02T00:00:00Z"],
      [id |-> "tx3", created_at |-> "2024-01-02T00:00:00Z"] }

\* a page of the history, in every order the backend may return it
TxPages ==
    UNION {{p \in [1..n -> Transactions] : \A i, j \in 1..n : i # j => p[i] # p[j]}
             : n \in 0..Cardinality(Transactions)}

\* what a handler closed over while it is not running
NoReq == [kind |-> "none", amount |-> 0, bal |-> NoBalance]

\* the CreditSystemDemo page before its first commit
DemoStart ==
    /\ dPhase = "init"
    /\ standaloneMode = FALSE
    /\ standaloneAuthenticated = FALSE
    /\ accessToken = Null
    /\ standaloneBalance = NoBalance
    /\ selectedOrg = FALSE
    /\ sdkBalance = NoBalance
    /\ transactionHistory = <<>>
    /\ insufficientBalanceError = NoShow
    /\ creditLimitError = NoShow
    /\ spendSuccess = NoDone
    /\ addSuccess = NoDone
    /\ dPc = "idle"
    /\ dReq = NoReq
    /\ dToast = Null
    /\ dFormCleared = FALSE
    /\ dOps = 0

Init == HookInit /\ AuthInit /\ DemoStart /\ demoVersion = 1

\* the Auth page alone: the hook is not mounted on this route
InitAuth ==
    /\ HookInit
    /\ ~inIframe
    /\ sessionStorage = EmptyStore
    /\ aPhase = "init"
    /\ aAllowed \in {{}, allowedOrigins}
    /\ aLoading = FALSE
    /\ aListening = FALSE
    /\ aTimeout = "none"
    /\ aStore = AuthEmptyStore
    /\ aNav = 0
    /\ aToasts = NoToasts
    /\ aPosted = 0
    /\ aHandled = 0
    /\ aValidEarly = FALSE
    /\ aLoginPending = FALSE
    /\ aOps = 0
    /\ DemoStart
    /\ demoVersion = 1

\* the CreditSystemDemo page alone, in either version of the file
InitDemo ==
    /\ HookInit
    /\ ~inIframe
    /\ sessionStorage = EmptyStore
    /\ AuthInit
    /\ DemoStart
    /\ demoVersion \in {1, 2}

\* ------------------------------------------------------------ mount effects
\* sessionStorage.removeItem of the three session keys
RemoveSessionKeys(store) == [k \in Keys |-> Null]

\* the mount effect's embedded branch: clear the persisted session and reset
MountEffectKeepStorage(s, iframe) ==
    IF iframe THEN Session(Null, Null, FALSE, Null, 0, Null, s.store) ELSE s

MountEffect(s, iframe) ==
    IF iframe
    THEN Session(Null, Null, FALSE, Null, 0, Null, RemoveSessionKeys(s.store))
    ELSE s

\* the restore effect; embedded is the isEmbedded its render closed over
RestoreEffect(s, embedded) ==
    IF embedded THEN s
    ELSE LET a == s.store["supreme_access_token"]
             r == s.store["supreme_refresh_token"]
             u == s.store["supreme_user"]
         IN IF a # Null /\ r # Null /\ u # Null /\ u # Undefined
            THEN IF Parsable(u)
                 THEN [s EXCEPT !.at = a, !.rt = r, !.user = JSONparse(u), !.auth = TRUE]
                 ELSE [s EXCEPT !.at = a, !.rt = r,
                                !.store = [@ EXCEPT !["supreme_user"] = Null]]
            ELSE s

\* first commit: the mount effect, the listener effect (isEmbedded is still
\* false, so it returns) and the restore effect run in declaration order
Mount ==
    /\ phase = "init"
    /\ phase' = "mounted"
    /\ Put(RestoreEffect(MountEffect(Cur, inIframe), isEmbedded))
    /\ initTimer' = IF inIframe THEN "pending" ELSE "none"
    /\ retryIntervalRef' = inIframe
    /\ UNCHANGED <<inIframe, staleAtLoad, isEmbedded, listening, retryCountRef, lastTick,
                   loginVars, posted, readyUser, statusVars, calls, handled, authVars, demoVars>>

\* second commit, after setIsEmbedded: the listener effect registers
\* handleMessage when embedded, the restore effect runs again if isEmbedded changed
Rerender ==
    /\ phase = "mounted"
    /\ phase' = "ready"
    /\ isEmbedded' = inIframe
    /\ listening' = inIframe
    /\ closure' = Snapshot
    /\ Put(IF inIframe # isEmbedded THEN RestoreEffect(Cur, inIframe) ELSE Cur)
    /\ UNCHANGED <<inIframe, staleAtLoad, timerVars, loginVars, posted, readyUser, lastStatus, calls, handled,
                   authVars, demoVars>>

\* a later commit after isAuthenticated, user or balance changed: the
\* listener effect runs again and registers a handleMessage that closes over
\* the new values
Commit ==
    /\ phase = "ready"
    /\ listening
    /\ closure # Snapshot
    /\ closure' = Snapshot
    /\ UNCHANGED <<modeVars, sessionVars, timerVars, loginVars, posted, readyUser, lastStatus,
                   calls, handled, authVars, demoVars>>

\* ------------------------------------------------------- handshake timers
\* the 500 ms timeout of the mount effect: the first REQUEST_JWT_TOKEN
InitialRequest ==
    /\ phase = "ready"
    /\ initTimer = "pending"
    /\ initTimer' = "fired"
    /\ posted' = Post(posted, "REQUEST_JWT_TOKEN")
    /\ UNCHANGED <<readyUser, statusVars, modeVars, sessionVars, retryIntervalRef, retryCountRef, lastTick,
                   loginVars, calls, handled, authVars, demoVars>>

\* the callback of the 15 s interval
RetryTick ==
    /\ phase = "ready"
    /\ retryIntervalRef
    /\ initTimer = "fired"
    /\ posted["REQUEST_JWT_TOKEN"] < MaxJwtReq
    /\ IF accessTokenRef = Null /\ retryCountRef < MaxRetries
       THEN /\ retryCountRef' = retryCountRef + 1
            /\ posted' = IF retryCountRef + 1 >= MaxRetries
                         THEN Post(Post(posted, "REQUEST_JWT_TOKEN"), "RELOAD_IFRAME_REQUEST")
                         ELSE Post(posted, "REQUEST_JWT_TOKEN")
            /\ lastTick' = "retry"
            /\ UNCHANGED retryIntervalRef
       ELSE IF accessTokenRef # Null
       THEN /\ retryIntervalRef' = FALSE
            /\ lastTick' = "stop"
            /\ UNCHANGED <<retryCountRef, posted>>
       ELSE /\ lastTick' = "idle"
            /\ UNCHANGED <<retryIntervalRef, retryCountRef, posted>>
    /\ UNCHANGED <<readyUser, statusVars, modeVars, sessionVars, initTimer, loginVars, calls, handled, authVars, demoVars>>

\* ------------------------------------------------ makeAuthenticatedRequest
InFlight(c) == calls[c].pc \in {"first", "refresh", "retry"}

\* every call that has begun, other than c, sees another operation run
Disturb(cs, c) ==
    [d \in CallIds |-> IF d = c \/ cs[d].pc = "idle" THEN cs[d]
                        ELSE [cs[d] EXCEPT !.solo = FALSE]]

HasFreeCall == \E c \in CallIds : calls[c].pc = "idle"

FreeCall ==
    CHOOSE c \in CallIds :
        calls[c].pc = "idle" /\ \A d \in CallIds : d < c => calls[d].pc # "idle"

\* requests sent to {apiBaseUrl}/... and to {authUrl}/refresh
HttpBalance ==
    Cardinality({c \in CallIds : calls[c].firstN > 0})
    + Cardinality({c \in CallIds : calls[c].retryN > 0})

HttpRefresh == Cardinality({c \in CallIds : calls[c].refreshN > 0})

\* logout(): in-memory session reset, the three keys removed; error is kept
LogoutEffectKeepStorage(s) == Session(Null, Null, FALSE, Null, 0, s.err, s.store)

LogoutEffect(s) ==
    Session(Null, Null, FALSE, Null, 0, s.err, RemoveSessionKeys(s.store))

\* the operations of the hook that go through makeAuthenticatedRequest
OpNames == {"balance", "spend", "add", "history"}

\* the guard of makeAuthenticatedRequest: a request needs a token
MayRequestAlways(tok) == TRUE

MayRequest(tok) == tok # Null

\* an operation up to its first await: makeAuthenticatedRequest throws
\* 'Not authenticated' without a token (the operation's catch sets error and
\* returns the failure), else it sends the request with the token
BeginOp(s, c, op) ==
    IF ~MayRequest(s.at)
    THEN /\ calls' = [Disturb(calls, c) EXCEPT ![c] =
                        [IdleCall EXCEPT !.pc = "done", !.op = op,
                                         !.result = "Not authenticated",
                                         !.retErr = "Not authenticated",
                                         !.solo = \A d \in CallIds : ~InFlight(d),
                                         !.authAtStart = s.auth]]
         /\ Put([s EXCEPT !.err = "Not authenticated"])
    ELSE /\ calls' = [d \in CallIds |->
                        IF d = c
                        THEN [IdleCall EXCEPT !.pc = "first", !.op = op, !.firstN = 1,
                                              !.sentTok = s.at,
                                              !.solo = \A x \in CallIds : ~InFlight(x),
                                              !.overlap = \E x \in CallIds : calls[x].pc = "first",
                                              !.authAtStart = s.auth]
                        ELSE IF calls[d].pc = "idle" THEN calls[d]
                        ELSE [calls[d] EXCEPT !.solo = FALSE,
                                              !.overlap = @ \/ calls[d].pc = "first"]]
         /\ Put(s)

BeginCheckBalance(s, c) == BeginOp(s, c, "balance")

\* the consumer calls checkBalance(), spendCredits(), addCredits() or getHistory()
Operation(op) ==
    /\ phase = "ready"
    /\ HasFreeCall
    /\ BeginOp(Cur, FreeCall, op)
    /\ UNCHANGED <<modeVars, timerVars, loginVars, posted, readyUser, statusVars, handled, authVars, demoVars>>

\* the consumer calls checkBalance()
CheckBalance == Operation("balance")

\* the body of a response: data.data.updated_balance, .new_balance, .balance
\* and data.message, each of which may be missing
\* a response: 200 with success, a rejection, 401, or fetch throwing
Responses == {"ok", "rejected", "401", "throw"}

NoData == [updated_balance |-> NoBalance, new_balance |-> NoBalance,
           balance |-> NoBalance, message |-> Null]

\* response bodies tried for a successful response: no balance at all, or
\* one of the three fields carrying a value
OkData ==
    {NoData}
    \cup {[NoData EXCEPT !.updated_balance = v] : v \in 0..MaxBalance}
    \cup {[NoData EXCEPT !.new_balance = v] : v \in 0..MaxBalance}
    \cup {[NoData EXCEPT !.balance = v] : v \in 0..MaxBalance}

\* response bodies tried for a rejection: with and without a message
FailData == {NoData, [NoData EXCEPT !.message = "backend message"]}

\* a response as status and body
ResponseCases ==
    {<<"ok", d>> : d \in OkData}
    \cup {<<r, d>> : r \in Responses \ {"ok", "throw"}, d \in FailData}
    \cup {<<"throw", NoData>>}

\* the responses tried while the session changes under the requests
SessionResponseCases ==
    {<<"ok", d>> : d \in {x \in OkData : x.balance # NoBalance}}
    \cup {<<r, NoData>> : r \in Responses \ {"ok"}}

\* JavaScript's a || b: 0 and undefined are falsy
Truthy(v) == v # NoBalance /\ v # 0

Or(a, b) == IF Truthy(a) THEN a ELSE b

\* data.data?.balance || 0
BalanceValue(d) == Or(d.balance, 0)

\* data.data?.updated_balance || data.data?.new_balance || data.data?.balance
NewBalance(d) == Or(Or(d.updated_balance, d.new_balance), d.balance)

Fallback(op) ==
    CASE op = "balance" -> "Failed to fetch balance"
      [] op = "spend" -> "Failed to spend credits"
      [] op = "add" -> "Failed to add credits"
      [] OTHER -> "Failed to fetch history"

\* data.message || '<fallback of the operation>'
FailMessage(op, d) == IF d.message # Null THEN d.message ELSE Fallback(op)

\* the error an operation returns for a response: none on success
ReturnedError(op, r, d) ==
    CASE r = "ok" -> Null
      [] r = "throw" -> "Network error"
      [] OTHER -> FailMessage(op, d)

\* the balance an operation returns on success
ReturnedBalance(op, r, d) ==
    CASE r = "ok" /\ op = "balance" -> BalanceValue(d)
      [] r = "ok" /\ op \in {"spend", "add"} -> NewBalance(d)
      [] OTHER -> NoBalance

\* an operation after makeAuthenticatedRequest returned a response or threw
Deliver(s, op, r, d) ==
    CASE r = "ok" /\ op = "history" -> s
      [] r = "ok" -> [s EXCEPT !.bal = ReturnedBalance(op, r, d)]
      [] OTHER -> [s EXCEPT !.err = ReturnedError(op, r, d)]

\* the message a successful operation posts to the parent when embedded
Notify(p, op, r, embedded) ==
    CASE r = "ok" /\ embedded /\ op = "balance" -> Post(p, "BALANCE_UPDATE")
      [] r = "ok" /\ embedded /\ op = "spend" -> Post(p, "CREDITS_SPENT")
      [] OTHER -> p

ResultOf(r) ==
    CASE r = "ok" -> "ok"
      [] r = "throw" -> "Network error"
      [] OTHER -> "rejected"

\* the first response arrives
FirstResponse(c, r, d) ==
    /\ calls[c].pc = "first"
    /\ IF r = "401"
       THEN IF refreshTokenRef # Null
            THEN /\ calls' = [Disturb(calls, c) EXCEPT ![c] =
                                [@ EXCEPT !.pc = "refresh", !.st1 = r, !.refreshN = @ + 1]]
                 /\ UNCHANGED <<sessionVars, posted>>
            ELSE /\ calls' = [Disturb(calls, c) EXCEPT ![c] =
                                [@ EXCEPT !.pc = "done", !.st1 = r, !.result = "Session expired",
                                          !.retErr = "Session expired"]]
                 /\ Put([LogoutEffect(Cur) EXCEPT !.err = "Session expired"])
                 /\ UNCHANGED posted
       ELSE /\ calls' = [Disturb(calls, c) EXCEPT ![c] =
                           [@ EXCEPT !.pc = "done", !.st1 = r, !.result = ResultOf(r),
                                     !.retErr = ReturnedError(calls[c].op, r, d),
                                     !.retBal = ReturnedBalance(calls[c].op, r, d)]]
            /\ Put(Deliver(Cur, calls[c].op, r, d))
            /\ posted' = Notify(posted, calls[c].op, r, isEmbedded)
    /\ UNCHANGED <<readyUser, statusVars, modeVars, timerVars, loginVars, handled, authVars, demoVars>>

\* the refresh endpoint: ok with success and data, ok without them, a
\* non-ok status, or fetch throwing
RefreshOutcomes == {"success", "nodata", "notok", "throw"}

\* the token the retried request carries: accessTokenRef.current, read when
\* the retry is built
RetryTokenStale(cur, sent) == sent

RetryToken(cur, sent) == cur

\* a refresh response with success and data replaces the access token
ApplyRefresh(s, o, n) ==
    IF o = "success"
    THEN [s EXCEPT !.at = n, !.store = [@ EXCEPT !["supreme_access_token"] = n]]
    ELSE s

\* the refresh response arrives (or the refresh request throws)
RefreshResponse(c, o, n) ==
    /\ calls[c].pc = "refresh"
    /\ CASE o \in {"success", "nodata"} ->
              LET s == ApplyRefresh(Cur, o, n) IN
              /\ Put(s)
              /\ calls' = [Disturb(calls, c) EXCEPT ![c] =
                             [@ EXCEPT !.pc = "retry", !.refOutcome = o,
                                       !.newTok = IF o = "success" THEN n ELSE Null,
                                       !.retryN = @ + 1,
                                       !.retryTok = RetryToken(s.at, calls[c].sentTok)]]
         [] o = "notok" ->
              /\ Put([LogoutEffect(Cur) EXCEPT !.err = "Session expired"])
              /\ calls' = [Disturb(calls, c) EXCEPT ![c] =
                             [@ EXCEPT !.pc = "done", !.refOutcome = o,
                                       !.result = "Session expired",
                                       !.retErr = "Session expired"]]
         [] OTHER ->
              /\ Put([Cur EXCEPT !.err = "Network error"])
              /\ calls' = [Disturb(calls, c) EXCEPT ![c] =
                             [@ EXCEPT !.pc = "done", !.refOutcome = o,
                                       !.result = "Network error",
                                       !.retErr = "Network error"]]
    /\ UNCHANGED <<modeVars, timerVars, loginVars, posted, readyUser, statusVars, handled, authVars, demoVars>>

\* the response to the retried request arrives: returned whatever its status
RetryResponse(c, r, d) ==
    /\ calls[c].pc = "retry"
    /\ calls' = [Disturb(calls, c) EXCEPT ![c] =
                   [@ EXCEPT !.pc = "done", !.st2 = r, !.result = ResultOf(r),
                             !.retErr = ReturnedError(calls[c].op, r, d),
                             !.retBal = ReturnedBalance(calls[c].op, r, d)]]
    /\ Put(Deliver(Cur, calls[c].op, r, d))
    /\ posted' = Notify(posted, calls[c].op, r, isEmbedded)
    /\ UNCHANGED <<readyUser, statusVars, modeVars, timerVars, loginVars, handled, authVars, demoVars>>

\* ------------------------------------------------------------ login, logout
Logout ==
    /\ phase = "ready"
    /\ ops < MaxOps
    /\ ops' = ops + 1
    /\ Put(LogoutEffect(Cur))
    /\ calls' = Disturb(calls, 0)
    /\ UNCHANGED <<modeVars, timerVars, loading, loginPending, posted, readyUser, statusVars, handled, authVars, demoVars>>

\* login up to its await: setLoading(true), setError(null), the request
LoginStart ==
    /\ phase = "ready"
    /\ ~loginPending
    /\ ops < MaxOps
    /\ ops' = ops + 1
    /\ loginPending' = TRUE
    /\ loading' = TRUE
    /\ Put([Cur EXCEPT !.err = Null])
    /\ calls' = Disturb(calls, 0)
    /\ UNCHANGED <<modeVars, timerVars, posted, readyUser, statusVars, handled, authVars, demoVars>>

LoginOutcomes == {"ok", "rejected", "throw"}

\* a failed login: setError(errorMsg), nothing else of the session changes
LoginFailureLogsOut(s, msg) == [LogoutEffect(s) EXCEPT !.err = msg]

LoginFailure(s, msg) == [s EXCEPT !.err = msg]

\* the login response arrives (or fetch throws)
LoginResponse(o) ==
    /\ loginPending
    /\ loginPending' = FALSE
    /\ loading' = FALSE
    /\ CASE o = "ok" ->
              /\ Put([Cur EXCEPT !.at = "AL", !.rt = "RL", !.user = "UL", !.auth = TRUE,
                                 !.store = StoreOf("AL", "RL", JSONstringify("UL"))])
              /\ posted' = IF isEmbedded THEN Post(posted, "LOGIN_SUCCESS") ELSE posted
         [] o = "rejected" ->
              /\ Put(LoginFailure(Cur, "Login failed"))
              /\ UNCHANGED posted
         [] OTHER ->
              /\ Put(LoginFailure(Cur, "Network error"))
              /\ UNCHANGED posted
    /\ calls' = Disturb(calls, 0)
    /\ UNCHANGED <<readyUser, statusVars, modeVars, timerVars, ops, handled, authVars, demoVars>>

\* ------------------------------------------------------------ handleMessage
\* the handler clears the retry interval when it accepts a token
StopRetryKeepInterval(iv, cnt) ==
    IF iv THEN [iv |-> iv, cnt |-> 0] ELSE [iv |-> iv, cnt |-> cnt]

StopRetry(iv, cnt) == IF iv THEN [iv |-> FALSE, cnt |-> 0] ELSE [iv |-> iv, cnt |-> cnt]

\* the JWT_TOKEN_RESPONSE branch with a token: sessionStorage.clear(), state
\* reset, then the message's values are stored as they are
AcceptTokenKeepBalance(s, e) ==
    Session(e.token, e.refreshToken, TRUE, e.user, s.bal, Null,
            StoreOf(e.token, ToStorage(e.refreshToken), JSONstringify(e.user)))

AcceptToken(s, e) ==
    Session(e.token, e.refreshToken, TRUE, e.user, 0, Null,
            StoreOf(e.token, ToStorage(e.refreshToken), JSONstringify(e.user)))

\* the CLEAR_STORAGE / CLEAR_SESSION case
ClearSession(s) ==
    Session(Null, Null, FALSE, Null, 0, Null, RemoveSessionKeys(s.store))

\* the case the switch on event.data.type selects; it has no default, and a
\* message without data or without type does not reach it
SwitchCaseDefaultStatus(t) ==
    IF t \in {"REFRESH_BALANCE", "CLEAR_STORAGE", "CLEAR_SESSION", "GET_STATUS"}
    THEN t ELSE "GET_STATUS"

SwitchCase(t) ==
    IF t \in {"REFRESH_BALANCE", "CLEAR_STORAGE", "CLEAR_SESSION", "GET_STATUS"}
    THEN t ELSE "none"

\* the STATUS_RESPONSE of the GET_STATUS case: the handler's isAuthenticated,
\* user and balance
StatusResponse(cl) == [isAuthenticated |-> cl.auth, user |-> cl.user, balance |-> cl.bal]

\* the JWT_TOKEN_RESPONSE branch without a token but with an error
TokenErrorClears(s, e) == [ClearSession(s) EXCEPT !.err = e.error]

TokenError(s, e) == [s EXCEPT !.err = e.error]

\* handleMessage, for one event; event.origin is never read.  With a token
\* and no user the handler throws at toast.success(user.email), after every
\* assignment of the branch has been made.
HandleMessage(e) ==
    /\ listening
    /\ handled < MaxMsgs
    /\ handled' = handled + 1
    /\ CASE e.type = "JWT_TOKEN_RESPONSE" /\ e.token # Null ->
              LET t == StopRetry(retryIntervalRef, retryCountRef) IN
              /\ Put(AcceptToken(Cur, e))
              /\ retryIntervalRef' = t.iv
              /\ retryCountRef' = t.cnt
              /\ posted' = Post(posted, "CREDIT_SYSTEM_READY")
              /\ readyUser' = e.user
              /\ UNCHANGED lastStatus
              /\ calls' = Disturb(calls, 0)
         [] e.type = "JWT_TOKEN_RESPONSE" /\ e.token = Null /\ e.error # Null ->
              /\ Put(TokenError(Cur, e))
              /\ calls' = Disturb(calls, 0)
              /\ UNCHANGED <<retryIntervalRef, retryCountRef, posted, readyUser, lastStatus>>
         [] SwitchCase(e.type) = "REFRESH_BALANCE" ->
              /\ HasFreeCall
              /\ BeginCheckBalance(Cur, FreeCall)
              /\ UNCHANGED <<retryIntervalRef, retryCountRef, posted, readyUser, lastStatus>>
         [] SwitchCase(e.type) \in {"CLEAR_STORAGE", "CLEAR_SESSION"} ->
              /\ Put(ClearSession(Cur))
              /\ calls' = Disturb(calls, 0)
              /\ UNCHANGED <<retryIntervalRef, retryCountRef, posted, readyUser, lastStatus>>
         [] SwitchCase(e.type) = "GET_STATUS" ->
              /\ posted' = Post(posted, "STATUS_RESPONSE")
              /\ UNCHANGED readyUser
              /\ lastStatus' = StatusResponse(closure)
              /\ UNCHANGED <<sessionVars, retryIntervalRef, retryCountRef, calls>>
         [] OTHER ->
              UNCHANGED <<sessionVars, retryIntervalRef, retryCountRef, posted, readyUser, lastStatus, calls>>
    /\ UNCHANGED <<closure, modeVars, initTimer, lastTick, loginVars, authVars, demoVars>>

\* events delivered while requests are in flight: a full session or a clear,
\* from the parent
SessionEvents ==
    { e \in Events : /\ e.origin \in allowedOrigins
                     /\ \/ e.type \in {"CLEAR_STORAGE", "CLEAR_SESSION"}
                        \/ e.type = "JWT_TOKEN_RESPONSE" /\ e.token # Null /\ e.user # Null }

\* handleMessage while requests are in flight
SessionMessage(e) == handled < MaxSessionMsgs /\ HandleMessage(e)

\* the hook from mount through the handshake, with login and logout
Next ==
    \/ Mount
    \/ Rerender
    \/ Commit
    \/ InitialRequest
    \/ RetryTick
    \/ \E e \in Events : HandleMessage(e)
    \/ Logout
    \/ LoginStart
    \/ \E o \in LoginOutcomes : LoginResponse(o)

Spec == Init /\ [][Next]_vars

\* the hook's authenticated requests
NextSession ==
    \/ Mount
    \/ Rerender
    \/ CheckBalance
    \/ \E c \in CallIds, x \in SessionResponseCases : FirstResponse(c, x[1], x[2])
    \/ \E c \in CallIds, o \in RefreshOutcomes, n \in NewTokens : RefreshResponse(c, o, n)
    \/ \E c \in CallIds, x \in SessionResponseCases : RetryResponse(c, x[1], x[2])
    \/ Logout
    \/ \E e \in SessionEvents : SessionMessage(e)

SpecSession == Init /\ [][NextSession]_vars

\* the hook's four operations
NextOps ==
    \/ Mount
    \/ Rerender
    \/ \E op \in OpNames : Operation(op)
    \/ \E c \in CallIds, x \in ResponseCases : FirstResponse(c, x[1], x[2])
    \/ \E c \in CallIds, o \in RefreshOutcomes, n \in NewTokens : RefreshResponse(c, o, n)
    \/ \E c \in CallIds, x \in ResponseCases : RetryResponse(c, x[1], x[2])

SpecOps == Init /\ [][NextOps]_vars

\* token responses from the parent that carry a token and a user
ReplaceEvents == { e \in SessionEvents : e.type = "JWT_TOKEN_RESPONSE" }

\* handleMessage for a token response, between balance requests
ReplaceMessage(e) == handled < MaxReplaceMsgs /\ HandleMessage(e)

\* the hook receiving one session after another, with balance requests
NextReplace ==
    \/ Mount
    \/ Rerender
    \/ CheckBalance
    \/ \E c \in CallIds, x \in SessionResponseCases : FirstResponse(c, x[1], x[2])
    \/ \E c \in CallIds, o \in RefreshOutcomes, n \in NewTokens : RefreshResponse(c, o, n)
    \/ \E c \in CallIds, x \in SessionResponseCases : RetryResponse(c, x[1], x[2])
    \/ \E e \in ReplaceEvents : ReplaceMessage(e)

SpecReplace == Init /\ [][NextReplace]_vars

\* ------------------------------------------------------------ the Auth page
Toast(t, title) == [t EXCEPT ![title] = @ + 1]

AuthStoreOf(a, r, u) ==
    [k \in AuthKeys |-> CASE k = "creditSystem_accessToken" -> a
                          [] k = "creditSystem_refreshToken" -> r
                          [] OTHER -> u]

\* the page's effect: in an iframe it registers handleMessage, posts
\* REQUEST_JWT_TOKEN and arms the 15 s timeout
AuthMount(iframe) ==
    /\ aPhase = "init"
    /\ IF iframe
       THEN /\ aPhase' = "embedded"
            /\ aLoading' = TRUE
            /\ aListening' = TRUE
            /\ aPosted' = aPosted + 1
            /\ aTimeout' = "pending"
       ELSE /\ aPhase' = "standalone"
            /\ UNCHANGED <<aLoading, aListening, aPosted, aTimeout>>
    /\ UNCHANGED <<hookVars, demoVars, aAllowed, aStore, aNav, aToasts, aHandled, aValidEarly,
                   aLoginPending, aOps>>

\* the origin check of the page's handleMessage
AuthOriginOkAny(allowed, origin) == TRUE

AuthOriginOk(allowed, origin) == origin \in allowed

\* the page's handleMessage, for one event
AuthMessage(e) ==
    /\ aListening
    /\ aHandled < MaxMsgs
    /\ aHandled' = aHandled + 1
    /\ IF ~AuthOriginOk(aAllowed, e.origin)
       THEN UNCHANGED <<aStore, aToasts, aNav, aLoading, aValidEarly>>
       ELSE IF e.type = "JWT_TOKEN_RESPONSE"
       THEN IF e.token # Null /\ e.user # Null
            THEN /\ aStore' = AuthStoreOf(e.token,
                                  IF e.refreshToken # Null THEN e.refreshToken
                                  ELSE aStore["creditSystem_refreshToken"],
                                  JSONstringify(e.user))
                 /\ aToasts' = Toast(aToasts, "Auto-login successful")
                 /\ aNav' = aNav + 1
                 /\ aValidEarly' = (aValidEarly \/ aTimeout = "pending")
                 /\ UNCHANGED aLoading
            ELSE /\ aLoading' = FALSE
                 /\ aToasts' = Toast(aToasts, "Authentication failed")
                 /\ UNCHANGED <<aStore, aNav, aValidEarly>>
       ELSE UNCHANGED <<aStore, aToasts, aNav, aLoading, aValidEarly>>
    /\ UNCHANGED <<hookVars, demoVars, aPhase, aAllowed, aListening, aTimeout, aPosted,
                   aLoginPending, aOps>>

\* the 15 s timeout fires
AuthTimeout ==
    /\ aTimeout = "pending"
    /\ aTimeout' = "fired"
    /\ aLoading' = FALSE
    /\ aToasts' = Toast(aToasts, "Authentication timeout")
    /\ UNCHANGED <<hookVars, demoVars, aPhase, aAllowed, aListening, aStore, aNav, aPosted,
                   aHandled, aValidEarly, aLoginPending, aOps>>

\* the effect's cleanup, when the route changes after navigate("/dashboard")
AuthUnmount ==
    /\ aPhase \in {"embedded", "standalone"}
    /\ aNav > 0
    /\ aPhase' = "unmounted"
    /\ aListening' = FALSE
    /\ aTimeout' = IF aTimeout = "pending" THEN "cleared" ELSE aTimeout
    /\ UNCHANGED <<hookVars, demoVars, aAllowed, aLoading, aStore, aNav, aToasts, aPosted,
                   aHandled, aValidEarly, aLoginPending, aOps>>

\* handleLogin up to its await; the form is shown only while not loading
AuthLoginSubmit(filled) ==
    /\ aPhase \in {"embedded", "standalone"}
    /\ ~aLoading
    /\ ~aLoginPending
    /\ aOps < MaxOps
    /\ aOps' = aOps + 1
    /\ IF filled
       THEN /\ aLoading' = TRUE
            /\ aLoginPending' = TRUE
            /\ UNCHANGED aToasts
       ELSE /\ aToasts' = Toast(aToasts, "Error")
            /\ UNCHANGED <<aLoading, aLoginPending>>
    /\ UNCHANGED <<hookVars, demoVars, aPhase, aAllowed, aListening, aTimeout, aStore, aNav,
                   aPosted, aHandled, aValidEarly>>

\* handleLogin after the login response arrived (or fetch threw)
AuthLoginResponse(o) ==
    /\ aLoginPending
    /\ aLoginPending' = FALSE
    /\ aLoading' = FALSE
    /\ CASE o = "ok" ->
              /\ aStore' = AuthStoreOf("AL", "RL", JSONstringify("UL"))
              /\ aToasts' = Toast(aToasts, "Login successful")
              /\ aNav' = aNav + 1
         [] o = "rejected" ->
              /\ aToasts' = Toast(aToasts, "Login failed")
              /\ UNCHANGED <<aStore, aNav>>
         [] OTHER ->
              /\ aToasts' = Toast(aToasts, "Error")
              /\ UNCHANGED <<aStore, aNav>>
    /\ UNCHANGED <<hookVars, demoVars, aPhase, aAllowed, aListening, aTimeout, aPosted, aHandled,
                   aValidEarly, aOps>>

NextAuth ==
    \/ \E iframe \in BOOLEAN : AuthMount(iframe)
    \/ \E e \in Events : AuthMessage(e)
    \/ AuthTimeout
    \/ AuthUnmount
    \/ \E filled \in BOOLEAN : AuthLoginSubmit(filled)
    \/ \E o \in LoginOutcomes : AuthLoginResponse(o)

SpecAuth == InitAuth /\ [][NextAuth]_vars

\* ------------------------------------------------- the CreditSystemDemo page
\* handleSpendCredits / handleAddCredits before their await: the form checks
ParseInt(s) ==
    CASE s = "" -> NaN
      [] s = "abc" -> NaN
      [] s = "0" -> 0
      [] s = "50" -> 50
      [] s = "150" -> 150
      [] s = "150.7" -> 150
      [] OTHER -> 200

\* String.prototype.trim
Trim(s) == IF s = " " THEN "" ELSE s

\* a ?? b: only null and undefined fall through, 0 does not
Nullish(a, b) == IF a = NoBalance THEN b ELSE a

\* a || 0 on a number or null
OrZero(a) == IF a = NoBalance THEN 0 ELSE a

DemoShow(cur, req) == [currentBalance |-> cur, requested |-> req]

DemoDone(amt, nb) == [amount |-> amt, newBalance |-> nb]

\* the balance the form checks use: standaloneMode ? standaloneBalance : balance
DemoCurrentBalance == IF standaloneMode THEN standaloneBalance ELSE sdkBalance

\* the spend pre-check: currentBalance === null || amount > currentBalance
SpendRefusedNever(cur, amount) == FALSE

SpendRefused(cur, amount) == cur = NoBalance \/ amount > cur

\* the add pre-check: currentBalance + amount > MAX_CREDIT_LIMIT
AddRefusedNever(cur, amount) == FALSE

AddRefused(cur, amount) == OrZero(cur) + amount > MAX_CREDIT_LIMIT

\* response bodies of the backend for the page: a new balance under one of
\* the three names or under none, and a rejection with or without a message
DemoOkData ==
    {NoData}
    \cup {[NoData EXCEPT !.updated_balance = v] : v \in LedgerValues}
    \cup {[NoData EXCEPT !.new_balance = v] : v \in LedgerValues}
    \cup {[NoData EXCEPT !.balance = v] : v \in LedgerValues}

DemoResponseCases ==
    {<<"ok", d>> : d \in DemoOkData}
    \cup {<<"rejected", d>> : d \in FailData}
    \cup {<<"throw", NoData>>}

DemoBalanceCases ==
    {<<"ok", d>> : d \in {x \in DemoOkData : x.updated_balance = NoBalance /\ x.new_balance = NoBalance}}
    \cup {<<"rejected", NoData>>, <<"throw", NoData>>}

\* apiRequest's success: response.ok && data.success
ApiSuccessAnyResponse(r) == r # "throw"

ApiSuccess(r) == r = "ok"

\* the new balance of standaloneSpendCredits / standaloneAddCredits:
\* data.new_balance ?? data.balance ?? (standaloneBalance ?? 0) -/+ amount
DemoNewBalance(d, local) == Nullish(d.new_balance, Nullish(d.balance, local))

\* the toast of a failed standalone operation: errorMsg || fallback
DemoErrorToast(r, d, fallback) ==
    CASE r = "throw" -> "Network error"
      [] d.message # Null -> d.message
      [] OTHER -> fallback

\* new Date(created_at).getTime()
GetTime(s) ==
    CASE s = "2024-01-01T00:00:00Z" -> 1
      [] s = "2024-01-02T00:00:00Z" -> 2
      [] OTHER -> 3

RECURSIVE InsertDesc(_, _)
\* the place a transaction takes among those already ordered: behind every
\* one that is not older (Array.prototype.sort is stable)
InsertDesc(sorted, tx) ==
    IF sorted = <<>> THEN <<tx>>
    ELSE IF GetTime(Head(sorted).created_at) >= GetTime(tx.created_at)
         THEN <<Head(sorted)>> \o InsertDesc(Tail(sorted), tx)
         ELSE <<tx>> \o sorted

RECURSIVE SortDesc(_)
\* [...transactions].sort((a, b) => time(b.created_at) - time(a.created_at))
SortDesc(txs) ==
    IF txs = <<>> THEN <<>>
    ELSE InsertDesc(SortDesc(SubSeq(txs, 1, Len(txs) - 1)), txs[Len(txs)])

\* setTransactionHistory(result.transactions || []) of the older page
ShowAsReturned(txs) == txs

\* the page's mount effect: standalone unless in an iframe
DemoMount(iframe) ==
    /\ dPhase = "init"
    /\ dPhase' = "ready"
    /\ standaloneMode' = ~iframe
    /\ UNCHANGED <<hookVars, authVars, demoVersion, standaloneAuthenticated, accessToken,
                   standaloneBalance, selectedOrg, sdkBalance, transactionHistory,
                   insufficientBalanceError, creditLimitError, spendSuccess, addSuccess,
                   dPc, dReq, dToast, dFormCleared, dOps>>

\* handleLogin in standalone mode, on a successful login: the token and the
\* organisations are stored, then the balance and the history are fetched
DemoLogin(org) ==
    /\ dPhase = "ready"
    /\ demoVersion = 1
    /\ standaloneMode
    /\ ~standaloneAuthenticated
    /\ dPc = "idle"
    /\ accessToken' = "T"
    /\ standaloneAuthenticated' = TRUE
    /\ selectedOrg' = org
    /\ IF org
       THEN /\ dPc' = "balanceReq"
            /\ dReq' = [kind |-> "login", amount |-> 0, bal |-> standaloneBalance]
       ELSE UNCHANGED <<dPc, dReq>>
    /\ UNCHANGED <<hookVars, authVars, dPhase, demoVersion, standaloneMode,
                   standaloneBalance, sdkBalance, transactionHistory,
                   insufficientBalanceError, creditLimitError, spendSuccess, addSuccess,
                   dToast, dFormCleared, dOps>>

\* the SDK publishes a balance of its own (useCreditSystem's balance)
SdkBalance(b) ==
    /\ dPhase = "ready"
    /\ ~standaloneMode
    /\ dPc = "idle"
    /\ sdkBalance # b
    /\ sdkBalance' = b
    /\ UNCHANGED <<hookVars, authVars, dPhase, demoVersion, standaloneMode,
                   standaloneAuthenticated, accessToken, standaloneBalance, selectedOrg,
                   transactionHistory, insufficientBalanceError, creditLimitError,
                   spendSuccess, addSuccess, dPc, dReq, dToast, dFormCleared, dOps>>

\* loadTransactionHistory(1, ...) up to its await: where the handler waits
\* next, for the standalone request (apiRequest returns at once without a
\* token) or for the SDK's getHistory
StartHistory ==
    IF standaloneMode /\ standaloneAuthenticated
    THEN IF accessToken # Null THEN "histReq" ELSE "idle"
    ELSE "histSdk"

\* a spend or add after its form checks passed: the standalone request or
\* the SDK call; req and sdk are where the handler waits for each
StartMutation(kind, amount, req, sdk) ==
    IF standaloneMode /\ standaloneAuthenticated
    THEN IF ~selectedOrg
         THEN /\ dToast' = "No organization selected. Please select an organization."
              /\ UNCHANGED <<dPc, dReq>>
         ELSE IF accessToken = Null
         THEN /\ dToast' = "No access token"
              /\ UNCHANGED <<dPc, dReq>>
         ELSE /\ dPc' = req
              /\ dReq' = [kind |-> kind, amount |-> amount, bal |-> standaloneBalance]
              /\ UNCHANGED dToast
    ELSE /\ dPc' = sdk
         /\ dReq' = [kind |-> kind, amount |-> amount, bal |-> standaloneBalance]
         /\ UNCHANGED dToast

\* handleSpendCredits up to its first await
HandleSpendCredits(field, desc) ==
    /\ dPhase = "ready"
    /\ demoVersion = 1
    /\ dPc = "idle"
    /\ dOps < MaxDemoOps
    /\ dOps' = dOps + 1
    /\ dFormCleared' = FALSE
    /\ LET amount == ParseInt(field)
           cur == DemoCurrentBalance
       IN
       CASE field = "" ->
              /\ dToast' = "Please enter an amount to spend"
              /\ UNCHANGED <<insufficientBalanceError, dPc, dReq>>
         [] field # "" /\ (amount = NaN \/ amount <= 0) ->
              /\ dToast' = "Please enter a valid positive amount"
              /\ UNCHANGED <<insufficientBalanceError, dPc, dReq>>
         [] field # "" /\ amount > 0 /\ SpendRefused(cur, amount) ->
              /\ insufficientBalanceError' = DemoShow(OrZero(cur), amount)
              /\ UNCHANGED <<dToast, dPc, dReq>>
         [] field # "" /\ amount > 0 /\ ~SpendRefused(cur, amount) /\ Trim(desc) = "" ->
              /\ dToast' = "Please enter a description"
              /\ UNCHANGED <<insufficientBalanceError, dPc, dReq>>
         [] OTHER ->
              /\ StartMutation("spend", amount, "spendReq", "spendSdk")
              /\ UNCHANGED insufficientBalanceError
    /\ UNCHANGED <<hookVars, authVars, dPhase, demoVersion, standaloneMode,
                   standaloneAuthenticated, accessToken, standaloneBalance, selectedOrg,
                   sdkBalance, transactionHistory, creditLimitError, spendSuccess,
                   addSuccess>>

\* handleAddCredits up to its first await
HandleAddCredits(field, desc) ==
    /\ dPhase = "ready"
    /\ demoVersion = 1
    /\ dPc = "idle"
    /\ dOps < MaxDemoOps
    /\ dOps' = dOps + 1
    /\ dFormCleared' = FALSE
    /\ LET amount == ParseInt(field)
           cur == DemoCurrentBalance
       IN
       CASE field = "" ->
              /\ dToast' = "Please enter an amount to add"
              /\ UNCHANGED <<creditLimitError, dPc, dReq>>
         [] field # "" /\ (amount = NaN \/ amount <= 0) ->
              /\ dToast' = "Please enter a valid positive amount"
              /\ UNCHANGED <<creditLimitError, dPc, dReq>>
         [] field # "" /\ amount > 0 /\ Trim(desc) = "" ->
              /\ dToast' = "Please enter a description"
              /\ UNCHANGED <<creditLimitError, dPc, dReq>>
         [] field # "" /\ amount > 0 /\ Trim(desc) # "" /\ AddRefused(cur, amount) ->
              /\ creditLimitError' = DemoShow(OrZero(cur), amount)
              /\ UNCHANGED <<dToast, dPc, dReq>>
         [] OTHER ->
              /\ StartMutation("add", amount, "addReq", "addSdk")
              /\ UNCHANGED creditLimitError
    /\ UNCHANGED <<hookVars, authVars, dPhase, demoVersion, standaloneMode,
                   standaloneAuthenticated, accessToken, standaloneBalance, selectedOrg,
                   sdkBalance, transactionHistory, insufficientBalanceError, spendSuccess,
                   addSuccess>>

\* the response to the standalone /spend or /add request arrives (or fetch
\* throws): standaloneSpendCredits / standaloneAddCredits and the rest of the
\* handler up to the history request
DemoMutationResponse(r, d) ==
    /\ dPc \in {"spendReq", "addReq"}
    /\ IF ApiSuccess(r)
       THEN LET local == IF dPc = "spendReq" THEN OrZero(dReq.bal) - dReq.amount
                         ELSE OrZero(dReq.bal) + dReq.amount
                nb == DemoNewBalance(d, local)
            IN /\ standaloneBalance' = nb
               /\ IF dPc = "spendReq"
                  THEN spendSuccess' = DemoDone(dReq.amount, nb) /\ UNCHANGED addSuccess
                  ELSE addSuccess' = DemoDone(dReq.amount, nb) /\ UNCHANGED spendSuccess
               /\ dFormCleared' = TRUE
               /\ dPc' = StartHistory
               /\ dReq' = IF StartHistory = "idle" THEN NoReq ELSE dReq
               /\ UNCHANGED dToast
       ELSE /\ dToast' = DemoErrorToast(r, d, IF dPc = "spendReq" THEN "Failed to spend credits"
                                               ELSE "Failed to add credits")
            /\ dPc' = "idle"
            /\ dReq' = NoReq
            /\ UNCHANGED <<standaloneBalance, spendSuccess, addSuccess, dFormCleared>>
    /\ UNCHANGED <<hookVars, authVars, dPhase, demoVersion, standaloneMode,
                   standaloneAuthenticated, accessToken, selectedOrg, sdkBalance,
                   transactionHistory, insufficientBalanceError, creditLimitError, dOps>>

\* what the SDK's spendCredits / addCredits resolve to
SdkResults ==
    {[success |-> TRUE, newBalance |-> b, error |-> Null] : b \in LedgerValues \cup {NoBalance}}
    \cup {[success |-> FALSE, newBalance |-> NoBalance, error |-> e]
            : e \in {Null, "backend message"}}

\* the SDK's spendCredits / addCredits settles: on success the popup, the
\* form reset and await checkBalance(); else the error toast
DemoSdkMutationResult(res) ==
    /\ dPc \in {"spendSdk", "addSdk"}
    /\ IF res.success
       THEN /\ IF dPc = "spendSdk"
               THEN /\ spendSuccess' = DemoDone(dReq.amount, OrZero(res.newBalance))
                    /\ UNCHANGED addSuccess
               ELSE /\ addSuccess' = DemoDone(dReq.amount, OrZero(res.newBalance))
                    /\ UNCHANGED spendSuccess
            /\ dFormCleared' = TRUE
            /\ dPc' = "balanceSdk"
            /\ UNCHANGED <<dToast, dReq>>
       ELSE /\ dToast' = IF res.error # Null THEN res.error
                         ELSE IF dPc = "spendSdk" THEN "Failed to spend credits"
                         ELSE "Failed to add credits"
            /\ dPc' = "idle"
            /\ dReq' = NoReq
            /\ UNCHANGED <<spendSuccess, addSuccess, dFormCleared>>
    /\ UNCHANGED <<hookVars, authVars, dPhase, demoVersion, standaloneMode,
                   standaloneAuthenticated, accessToken, standaloneBalance, selectedOrg,
                   sdkBalance, transactionHistory, insufficientBalanceError,
                   creditLimitError, dOps>>

\* the SDK's checkBalance settles; the handler goes on to loadTransactionHistory(1)
DemoSdkBalanceResult(b) ==
    /\ dPc = "balanceSdk"
    /\ sdkBalance' = b
    /\ dPc' = StartHistory
    /\ dReq' = IF StartHistory = "idle" THEN NoReq ELSE dReq
    /\ UNCHANGED <<hookVars, authVars, dPhase, demoVersion, standaloneMode,
                   standaloneAuthenticated, accessToken, standaloneBalance, selectedOrg,
                   transactionHistory, insufficientBalanceError, creditLimitError,
                   spendSuccess, addSuccess, dToast, dFormCleared, dOps>>

\* the response to the standalone /balance request after login arrives:
\* standaloneCheckBalance, then loadTransactionHistory(1, org, token)
DemoBalanceResponse(r, d) ==
    /\ dPc = "balanceReq"
    /\ standaloneBalance' = IF ApiSuccess(r) THEN d.balance ELSE standaloneBalance
    /\ dPc' = "histReq"
    /\ UNCHANGED <<hookVars, authVars, dPhase, demoVersion, standaloneMode,
                   standaloneAuthenticated, accessToken, selectedOrg, sdkBalance,
                   transactionHistory, insufficientBalanceError, creditLimitError,
                   spendSuccess, addSuccess, dReq, dToast, dFormCleared, dOps>>

\* the user reloads the history (pagination, refresh)
LoadTransactionHistory ==
    /\ dPhase = "ready"
    /\ demoVersion = 1
    /\ dPc = "idle"
    /\ dOps < MaxDemoOps
    /\ dOps' = dOps + 1
    /\ dPc' = StartHistory
    /\ dReq' = IF StartHistory = "idle" THEN NoReq
               ELSE [kind |-> "history", amount |-> 0, bal |-> standaloneBalance]
    /\ UNCHANGED <<hookVars, authVars, dPhase, demoVersion, standaloneMode,
                   standaloneAuthenticated, accessToken, standaloneBalance, selectedOrg,
                   sdkBalance, transactionHistory, insufficientBalanceError,
                   creditLimitError, spendSuccess, addSuccess, dToast, dFormCleared>>

\* the history response arrives, from the backend or from the SDK: on
\* success the page is sorted by created_at, newest first, and displayed
DemoHistoryResult(ok, page) ==
    /\ dPc \in {"histReq", "histSdk"}
    /\ demoVersion = 1
    /\ dPc' = "idle"
    /\ dReq' = NoReq
    /\ transactionHistory' = IF ok THEN SortDesc(page) ELSE transactionHistory
    /\ UNCHANGED <<hookVars, authVars, dPhase, demoVersion, standaloneMode,
                   standaloneAuthenticated, accessToken, standaloneBalance, selectedOrg,
                   sdkBalance, insufficientBalanceError, creditLimitError, spendSuccess,
                   addSuccess, dToast, dFormCleared, dOps>>

\* handleGetHistory of the older page up to its await: getHistory(1, 10)
HandleGetHistory ==
    /\ dPhase = "ready"
    /\ demoVersion = 2
    /\ dPc = "idle"
    /\ dOps < MaxDemoOps
    /\ dOps' = dOps + 1
    /\ dPc' = "histSdk"
    /\ dReq' = [kind |-> "history", amount |-> 0, bal |-> standaloneBalance]
    /\ UNCHANGED <<hookVars, authVars, dPhase, demoVersion, standaloneMode,
                   standaloneAuthenticated, accessToken, standaloneBalance, selectedOrg,
                   sdkBalance, transactionHistory, insufficientBalanceError,
                   creditLimitError, spendSuccess, addSuccess, dToast, dFormCleared>>

\* handleGetHistory of the older page after getHistory settled
HandleGetHistoryResult(ok, page) ==
    /\ dPc = "histSdk"
    /\ demoVersion = 2
    /\ dPc' = "idle"
    /\ dReq' = NoReq
    /\ transactionHistory' = IF ok THEN ShowAsReturned(page) ELSE transactionHistory
    /\ UNCHANGED <<hookVars, authVars, dPhase, demoVersion, standaloneMode,
                   standaloneAuthenticated, accessToken, standaloneBalance, selectedOrg,
                   sdkBalance, insufficientBalanceError, creditLimitError, spendSuccess,
                   addSuccess, dToast, dFormCleared, dOps>>

\* the timers that take the popups and the toast off the screen
DemoDismiss ==
    /\ \/ insufficientBalanceError # NoShow
       \/ creditLimitError # NoShow
       \/ spendSuccess # NoDone
       \/ addSuccess # NoDone
       \/ dToast # Null
    /\ insufficientBalanceError' = NoShow
    /\ creditLimitError' = NoShow
    /\ spendSuccess' = NoDone
    /\ addSuccess' = NoDone
    /\ dToast' = Null
    /\ UNCHANGED <<hookVars, authVars, dPhase, demoVersion, standaloneMode,
                   standaloneAuthenticated, accessToken, standaloneBalance, selectedOrg,
                   sdkBalance, transactionHistory, dPc, dReq, dFormCleared, dOps>>

NextDemo ==
    \/ \E iframe \in BOOLEAN : DemoMount(iframe)
    \/ \E org \in BOOLEAN : DemoLogin(org)
    \/ \E b \in LedgerValues : SdkBalance(b)
    \/ \E f \in AmountFields, t \in Descriptions : HandleSpendCredits(f, t)
    \/ \E f \in AmountFields, t \in Descriptions : HandleAddCredits(f, t)
    \/ \E x \in DemoResponseCases : DemoMutationResponse(x[1], x[2])
    \/ \E res \in SdkResults : DemoSdkMutationResult(res)
    \/ \E b \in LedgerValues : DemoSdkBalanceResult(b)
    \/ \E x \in DemoBalanceCases : DemoBalanceResponse(x[1], x[2])
    \/ LoadTransactionHistory
    \/ \E ok \in BOOLEAN, page \in TxPages : DemoHistoryResult(ok, page)
    \/ HandleGetHistory
    \/ \E ok \in BOOLEAN, page \in TxPages : HandleGetHistoryResult(ok, page)
    \/ DemoDismiss

SpecDemo == InitDemo /\ [][NextDemo]_vars

\* ===================================================================
\* Claims
\* ===================================================================

ControlTypes == {"REFRESH_BALANCE", "CLEAR_STORAGE", "CLEAR_SESSION", "GET_STATUS"}

\* C1: a JWT_TOKEN_RESPONSE whose origin is outside the allow-list leaves the
\* hook's session (tokens, user, isAuthenticated, balance, error and the
\* persisted keys) as it was.
C1_ForeignTokenResponseIgnored ==
    [][\A e \in Events :
          (e.type = "JWT_TOKEN_RESPONSE" /\ e.origin \notin allowedOrigins /\ HandleMessage(e))
          => UNCHANGED sessionVars]_vars

\* C2: a control message (REFRESH_BALANCE, CLEAR_STORAGE, CLEAR_SESSION,
\* GET_STATUS) from outside the allow-list clears nothing, issues no balance
\* request and sends no STATUS_RESPONSE.
C2_ForeignControlIgnored ==
    [][\A e \in Events :
          (e.type \in ControlTypes /\ e.origin \notin allowedOrigins /\ HandleMessage(e))
          => /\ UNCHANGED sessionVars
             /\ UNCHANGED calls
             /\ posted'["STATUS_RESPONSE"] = posted["STATUS_RESPONSE"]]_vars

\* C3: an accepted-origin JWT_TOKEN_RESPONSE with a token and no user does not
\* set isAuthenticated, stores no token in memory or sessionStorage and sends
\* no CREDIT_SYSTEM_READY.
C3_TokenWithoutUserRejected ==
    [][\A e \in Events :
          (/\ e.type = "JWT_TOKEN_RESPONSE"
           /\ e.origin \in allowedOrigins
           /\ e.token # Null
           /\ e.user = Null
           /\ HandleMessage(e))
          => /\ isAuthenticated' => isAuthenticated
             /\ UNCHANGED <<accessTokenRef, refreshTokenRef, sessionStorage>>
             /\ posted'["CREDIT_SYSTEM_READY"] = posted["CREDIT_SYSTEM_READY"]]_vars

\* failure notifications of the Auth page's handshake
AuthFailures == aToasts["Authentication failed"] + aToasts["Authentication timeout"]

\* C4: on the Auth page, once the 15 s timeout has fired without a valid
\* response before it, loading is false, exactly one failure notification has
\* been shown, and no token is stored and no navigation made, whatever
\* messages arrived before or after.
C4_TimeoutFailsOnce ==
    (aTimeout = "fired" /\ ~aValidEarly /\ aOps = 0)
    => /\ ~aLoading
       /\ AuthFailures = 1
       /\ aNav = 0
       /\ aStore = AuthEmptyStore

\* REQUEST_JWT_TOKEN messages sent by the interval (all but the initial one)
RetriesSent == posted["REQUEST_JWT_TOKEN"] - (IF initTimer = "fired" THEN 1 ELSE 0)

\* C5: the retry interval sends at most 3 REQUEST_JWT_TOKEN retries during
\* the page's lifetime, at most 4 requests with the initial one.
C5_RetriesBounded ==
    /\ RetriesSent <= MaxRetries
    /\ posted["REQUEST_JWT_TOKEN"] <= MaxRetries + 1

\* C5 witness: three retries were sent, a token was accepted and the session
\* was cleared again.
C5_Witness ==
    /\ RetriesSent = MaxRetries
    /\ posted["CREDIT_SYSTEM_READY"] > 0
    /\ accessTokenRef = Null

\* C6: once the retries are exhausted and the session is still without a
\* token, RELOAD_IFRAME_REQUEST has been sent exactly once and the failure is
\* surfaced: error is set and isAuthenticated is false.
C6_ExhaustedRetriesFail ==
    (lastTick = "idle" /\ accessTokenRef = Null)
    => /\ posted["RELOAD_IFRAME_REQUEST"] = 1
       /\ error # Null
       /\ ~isAuthenticated

\* values of a session persisted before this page load
StaleValues == {"A0", "R0", "U0", JSONstringify("U0"), "{garbage"}

\* C7: in embedded mode nothing persisted before the load survives the mount
\* or enters the in-memory session, and isAuthenticated is true only for a
\* session received (or logged in) during this page load.
C7_EmbeddedNeverRestores ==
    (inIframe /\ phase # "init")
    => /\ accessTokenRef \notin StaleValues
       /\ refreshTokenRef \notin StaleValues
       /\ user \notin StaleValues
       /\ \A k \in Keys : sessionStorage[k] \notin StaleValues
       /\ isAuthenticated => (posted["CREDIT_SYSTEM_READY"] > 0 \/ user = "UL")

\* C7 witness: an embedded page that loaded over a persisted session has
\* run its effects and is waiting for the handshake.
C7_Witness ==
    /\ inIframe
    /\ staleAtLoad
    /\ phase = "ready"
    /\ sessionStorage = EmptyStore
    /\ ~isAuthenticated

\* C8: a call whose first response is 401 and whose refresh succeeds sends
\* one refresh, retries once with the new token and returns that second
\* response whatever its status; with nothing else running, the new token is
\* the one in memory and in sessionStorage and isAuthenticated stays true.
C8_RefreshThenRetryOnce ==
    \A c \in CallIds :
        /\ (calls[c].pc = "refresh" /\ calls[c].solo /\ calls[c].authAtStart)
           => (isAuthenticated /\ calls[c].refreshN = 1 /\ calls[c].retryN = 0)
        /\ (calls[c].st1 = "401" /\ calls[c].refOutcome = "success")
           => /\ calls[c].refreshN = 1
              /\ calls[c].retryN = 1
              /\ calls[c].retryTok = calls[c].newTok
              /\ calls[c].pc \in {"retry", "done"}
              /\ calls[c].pc = "done" => calls[c].result = ResultOf(calls[c].st2)
              /\ calls[c].solo =>
                   /\ accessTokenRef = calls[c].newTok
                   /\ sessionStorage["supreme_access_token"] = calls[c].newTok
                   /\ calls[c].authAtStart => isAuthenticated

\* C8 witness: a lone call got 401, refreshed, retried, and got 401 again.
C8_Witness ==
    \E c \in CallIds :
        /\ calls[c].pc = "done"
        /\ calls[c].st1 = "401"
        /\ calls[c].refOutcome = "success"
        /\ calls[c].st2 = "401"
        /\ calls[c].solo
        /\ calls[c].authAtStart

\* C9: when the refresh fails in any way (no refresh token, non-ok response,
\* ok without success or data, or a thrown request) the call fails with
\* 'Session expired' without a retry and the session is logged out.
C9_RefreshFailureLogsOut ==
    \A c \in CallIds :
        (calls[c].st1 = "401" /\ calls[c].refOutcome # "success" /\ calls[c].pc \in {"retry", "done"})
        => /\ calls[c].retryN = 0
           /\ calls[c].result = "Session expired"
           /\ calls[c].solo =>
                /\ accessTokenRef = Null
                /\ refreshTokenRef = Null
                /\ sessionStorage = EmptyStore
                /\ ~isAuthenticated

\* C10: when two calls are in flight together and both get 401, at most one
\* refresh request is sent and both retries carry the one new token.
C10_SingleRefreshForConcurrent401 ==
    (\A c \in CallIds : calls[c].overlap /\ calls[c].st1 = "401")
    => /\ HttpRefresh <= 1
       /\ \A c, d \in CallIds :
            (calls[c].retryN > 0 /\ calls[d].retryN > 0) => calls[c].retryTok = calls[d].retryTok

\* C11: when the session was cleared (logout, CLEAR_STORAGE, CLEAR_SESSION)
\* while a refresh request was in flight, the refresh response does not bring
\* a token back: accessTokenRef stays null and sessionStorage holds no
\* supreme_access_token.
C11_ClearedTokensStayCleared ==
    [][\A c \in CallIds, o \in RefreshOutcomes, n \in NewTokens :
          (accessTokenRef = Null /\ RefreshResponse(c, o, n))
          => /\ accessTokenRef' = Null
             /\ sessionStorage'["supreme_access_token"] = Null]_vars

\* C12: without an access token each of checkBalance, spendCredits,
\* addCredits and getHistory returns the failure 'Not authenticated', sends
\* no HTTP request, and leaves the cached balance, the tokens, the user,
\* isAuthenticated and the persisted session as they were.
C12_UnauthenticatedOperationsFail ==
    [][\A op \in OpNames :
          (accessTokenRef = Null /\ Operation(op))
          => /\ UNCHANGED <<accessTokenRef, refreshTokenRef, user, isAuthenticated,
                            balance, sessionStorage>>
             /\ HttpBalance' = HttpBalance
             /\ HttpRefresh' = HttpRefresh
             /\ \E c \in CallIds :
                   /\ calls[c].pc = "idle"
                   /\ calls'[c].pc = "done"
                   /\ calls'[c].op = op
                   /\ calls'[c].retErr = "Not authenticated"]_vars

\* C12 witness: with no token held, a spend and a history call have both
\* returned 'Not authenticated' without a request.
C12_Witness ==
    /\ accessTokenRef = Null
    /\ \E c, d \in CallIds :
          /\ calls[c].op = "spend" /\ calls[d].op = "history"
          /\ calls[c].retErr = "Not authenticated" /\ calls[d].retErr = "Not authenticated"
          /\ calls[c].firstN = 0 /\ calls[d].firstN = 0

\* C13: on the CreditSystemDemo page a spend of a positive amount above the
\* last known balance, whatever the description, shows the
\* insufficient-balance error with the current balance and the requested
\* amount, starts no request and leaves the cached balance as it was.
C13_OverspendRefused ==
    [][\A f \in AmountFields, t \in Descriptions :
          (/\ ParseInt(f) > 0
           /\ DemoCurrentBalance # NoBalance
           /\ ParseInt(f) > DemoCurrentBalance
           /\ HandleSpendCredits(f, t))
          => /\ insufficientBalanceError' = DemoShow(DemoCurrentBalance, ParseInt(f))
             /\ dPc' = "idle"
             /\ UNCHANGED <<standaloneBalance, sdkBalance, spendSuccess>>]_vars

\* C13 witness: with a balance of 100 a spend of 150 was refused: the error
\* shows 100 and 150, nothing is in flight and the balance is still 100.
C13_Witness ==
    /\ standaloneMode
    /\ standaloneBalance = 100
    /\ insufficientBalanceError = DemoShow(100, 150)
    /\ dPc = "idle"
    /\ dOps = 1

\* C14: on the CreditSystemDemo page an add of a positive amount that would
\* take the last known balance above 25000, whatever the description, shows
\* the credit-limit error with the current balance and the requested amount,
\* starts no request and leaves the cached balance as it was.
C14_OverLimitRefused ==
    [][\A f \in AmountFields, t \in Descriptions :
          (/\ ParseInt(f) > 0
           /\ OrZero(DemoCurrentBalance) + ParseInt(f) > MAX_CREDIT_LIMIT
           /\ HandleAddCredits(f, t))
          => /\ creditLimitError' = DemoShow(OrZero(DemoCurrentBalance), ParseInt(f))
             /\ dPc' = "idle"
             /\ UNCHANGED <<standaloneBalance, sdkBalance, addSuccess>>]_vars

\* the toast a rejected spend or add ends with: the backend's message, or
\* the handler's own text when the backend sent none
RejectionToast(pc, message) ==
    CASE message # Null -> message
      [] pc \in {"spendReq", "spendSdk"} -> "Failed to spend credits"
      [] OTHER -> "Failed to add credits"

\* C15: when a spend or add passed the form checks and the backend rejects
\* it (non-ok status or success = false), in the standalone path and in the
\* SDK path alike, the handler shows the backend's message as the failure,
\* the cached balance stays as it was, and there is no success popup, no form
\* reset and no follow-up request.
C15_BackendRejectionWins ==
    [][/\ \A x \in DemoResponseCases :
             (x[1] = "rejected" /\ DemoMutationResponse(x[1], x[2]))
             => /\ dToast' = RejectionToast(dPc, x[2].message)
                /\ UNCHANGED <<standaloneBalance, sdkBalance, spendSuccess, addSuccess,
                               dFormCleared, transactionHistory>>
                /\ dPc' = "idle"
       /\ \A res \in SdkResults :
             (~res.success /\ DemoSdkMutationResult(res))
             => /\ dToast' = RejectionToast(dPc, res.error)
                /\ UNCHANGED <<standaloneBalance, sdkBalance, spendSuccess, addSuccess,
                               dFormCleared, transactionHistory>>
                /\ dPc' = "idle"]_vars

\* C15 witness: a standalone spend that passed the form checks was rejected
\* by the backend with a message; the balance is still 100 and nothing
\* follows.
C15_Witness ==
    /\ standaloneMode /\ standaloneAuthenticated
    /\ dOps = 1
    /\ dToast = "backend message"
    /\ standaloneBalance = 100
    /\ spendSuccess = NoDone /\ addSuccess = NoDone
    /\ ~dFormCleared
    /\ dPc = "idle"
    /\ transactionHistory = <<>>

\* the displayed list holds exactly the transactions of the page
IsPermutation(shown, page) ==
    /\ Len(shown) = Len(page)
    /\ \A tx \in Transactions :
          Cardinality({i \in 1..Len(shown) : shown[i] = tx})
          = Cardinality({i \in 1..Len(page) : page[i] = tx})

\* newest first
NonIncreasing(shown) ==
    \A i \in 1..(Len(shown) - 1) :
        GetTime(shown[i].created_at) >= GetTime(shown[i + 1].created_at)

\* C16: after every successful history load, by loadTransactionHistory
\* (standalone and SDK path) and by handleGetHistory, the displayed list is a
\* permutation of the page the backend returned and is non-increasing by
\* created_at, whatever the order of the page.
C16_HistoryNewestFirst ==
    [][\A page \in TxPages :
          (DemoHistoryResult(TRUE, page) \/ HandleGetHistoryResult(TRUE, page))
          => /\ IsPermutation(transactionHistory', page)
             /\ NonIncreasing(transactionHistory')]_vars

\* C17: a login that the backend rejects or that fails at the network level
\* is not retried (no login request is in flight afterwards), leaves the
\* tokens, the user, isAuthenticated and the persisted session keys as they
\* were, sets error to the failure message and ends with loading = false.
C17_FailedLoginChangesNothing ==
    [][\A o \in LoginOutcomes \ {"ok"} :
          LoginResponse(o)
          => /\ UNCHANGED <<accessTokenRef, refreshTokenRef, user, isAuthenticated,
                            sessionStorage, balance, posted, ops>>
             /\ error' = (IF o = "rejected" THEN "Login failed" ELSE "Network error")
             /\ ~loading'
             /\ ~loginPending']_vars

\* C17 witness: a login was rejected while a session received from the parent
\* was held; the session is still there and the error is shown.
C17_Witness ==
    /\ error = "Login failed"
    /\ ops = 1
    /\ ~loading /\ ~loginPending
    /\ isAuthenticated
    /\ accessTokenRef = "A1"
    /\ sessionStorage["supreme_access_token"] = "A1"

C19_AuthForeignOriginDiscarded ==
    [][\A e \in Events :
          ((aAllowed = {} \/ e.origin \notin aAllowed) /\ AuthMessage(e))
          => UNCHANGED <<aStore, aLoading, aToasts, aNav>>]_vars

\* C19 witness: with an empty allow-list the page has handled messages during
\* the handshake and is still waiting, nothing stored, shown or navigated.
C19_Witness ==
    /\ aAllowed = {}
    /\ aPhase = "embedded"
    /\ aHandled = MaxMsgs
    /\ aTimeout = "pending"
    /\ aLoading
    /\ aStore = AuthEmptyStore
    /\ aToasts = NoToasts
    /\ aNav = 0

\* C20: when handleMessage accepts a JWT_TOKEN_RESPONSE (token and user
\* present) while a session of another user is held, the session is replaced
\* as a whole: the in-memory tokens and the user are the message's, the three
\* session keys hold what setItem stores for the message's values, balance is
\* 0, isAuthenticated is true, and exactly one CREDIT_SYSTEM_READY, carrying
\* the message's user, is posted for it.
C20_NewTokenReplacesSession ==
    [][\A e \in Events :
          (/\ e.type = "JWT_TOKEN_RESPONSE" /\ e.token # Null /\ e.user # Null
           /\ accessTokenRef # Null /\ user # Null /\ user # e.user
           /\ HandleMessage(e))
          => /\ accessTokenRef' = e.token
             /\ refreshTokenRef' = e.refreshToken
             /\ user' = e.user
             /\ sessionStorage'["supreme_access_token"] = e.token
             /\ sessionStorage'["supreme_refresh_token"] = ToStorage(e.refreshToken)
             /\ sessionStorage'["supreme_user"] = JSONstringify(e.user)
             /\ balance' = 0
             /\ isAuthenticated'
             /\ posted' = Post(posted, "CREDIT_SYSTEM_READY")
             /\ readyUser' = e.user]_vars

\* C20 witness: U1's session fetched a balance of 1, then the parent's
\* response for U2 was accepted and U2's session is the one held.
C20_Witness ==
    /\ handled = 2
    /\ posted["CREDIT_SYSTEM_READY"] = 2
    /\ \E c \in CallIds :
          /\ calls[c].pc = "done" /\ calls[c].result = "ok"
          /\ calls[c].sentTok = "A1" /\ calls[c].retBal = 1
    /\ accessTokenRef = "A2" /\ refreshTokenRef = "R2"
    /\ user = "U2"
    /\ sessionStorage = StoreOf("A2", "R2", JSONstringify("U2"))
    /\ balance = 0
    /\ isAuthenticated
    /\ readyUser = "U2"

\* C21: once handleMessage has accepted a token from a JWT_TOKEN_RESPONSE the
\* retry interval is cleared: from then on no interval tick posts
\* REQUEST_JWT_TOKEN or RELOAD_IFRAME_REQUEST, also after the session was
\* cleared again; and no step taken while an access token is held posts
\* RELOAD_IFRAME_REQUEST.
C21_AcceptedTokenCancelsRetry ==
    [][/\ posted'["CREDIT_SYSTEM_READY"] > 0 => ~retryIntervalRef'
       /\ (posted["CREDIT_SYSTEM_READY"] > 0 /\ RetryTick)
          => /\ posted'["REQUEST_JWT_TOKEN"] = posted["REQUEST_JWT_TOKEN"]
             /\ posted'["RELOAD_IFRAME_REQUEST"] = posted["RELOAD_IFRAME_REQUEST"]
       /\ accessTokenRef # Null
          => posted'["RELOAD_IFRAME_REQUEST"] = posted["RELOAD_IFRAME_REQUEST"]]_vars

\* C21 witness: a token was accepted before the retries were used up and the
\* session was cleared again; the interval is gone although no token is held.
C21_Witness ==
    /\ posted["CREDIT_SYSTEM_READY"] > 0
    /\ initTimer = "fired"
    /\ RetriesSent < MaxRetries
    /\ accessTokenRef = Null
    /\ ~retryIntervalRef
    /\ retryCountRef = 0

\* C22: the handler of a successful spend or add goes on to fetch the
\* authoritative balance before it reloads page 1 of the history: in the
\* standalone path the step that takes the successful /spend or /add response
\* leaves the /balance request in flight, in the SDK path the step that takes
\* the SDK's successful result leaves checkBalance() in flight, and the
\* history request follows the balance result.
C22_MutationRefetchesBalance ==
    [][/\ \A x \in DemoResponseCases :
             (ApiSuccess(x[1]) /\ DemoMutationResponse(x[1], x[2]))
             => dPc' = "balanceReq"
       /\ \A res \in SdkResults :
             (res.success /\ DemoSdkMutationResult(res)) => dPc' = "balanceSdk"
       /\ \A b \in LedgerValues :
             DemoSdkBalanceResult(b) => dPc' = "histSdk"]_vars

\* the balance a response body supplies: the first of updated_balance,
\* new_balance, balance that is present
Supplied(d) == Nullish(Nullish(d.updated_balance, d.new_balance), d.balance)

\* C30: when a spendCredits or addCredits response succeeds and supplies a
\* new balance (in updated_balance, new_balance or balance), the cached
\* balance and the balance the operation returns are that value, 0 included;
\* a successful checkBalance response sets the cached balance to the balance
\* it returns.
C30_ServerBalanceIsCached ==
    [][\A c \in CallIds, x \in ResponseCases :
          (/\ x[1] = "ok"
           /\ FirstResponse(c, x[1], x[2]) \/ RetryResponse(c, x[1], x[2]))
          => /\ (calls[c].op \in {"spend", "add"} /\ Supplied(x[2]) # NoBalance)
                => /\ balance' = Supplied(x[2])
                   /\ calls'[c].retBal = Supplied(x[2])
             /\ calls[c].op = "balance"
                => /\ balance' = calls'[c].retBal
                   /\ x[2].balance # NoBalance => balance' = x[2].balance]_vars

\* the balance a successful response carries for an operation
Carried(op, d) == IF op = "balance" THEN d.balance ELSE Supplied(d)

\* a spend or add and a checkBalance that were in flight at the same time
Concurrent(c, d) ==
    /\ c # d
    /\ calls[c].overlap /\ calls[d].overlap
    /\ \/ calls[c].op = "balance" /\ calls[d].op \in {"spend", "add"}
       \/ calls[d].op = "balance" /\ calls[c].op \in {"spend", "add"}

\* C23: a spend (or add) and a checkBalance may be in flight together, and
\* when the second of their two successful responses arrives, whichever it
\* is, the cached balance becomes the value that response carries.
C23_LastResponseWins ==
    [][\A c \in CallIds, x \in ResponseCases :
          (/\ x[1] = "ok"
           /\ Carried(calls[c].op, x[2]) # NoBalance
           /\ \E d \in CallIds :
                 Concurrent(c, d) /\ calls[d].pc = "done" /\ calls[d].result = "ok"
           /\ FirstResponse(c, x[1], x[2]) \/ RetryResponse(c, x[1], x[2]))
          => balance' = Carried(calls[c].op, x[2])]_vars

\* C24: on a standalone mount, a persisted session whose supreme_user is the
\* string "undefined" or does not parse as JSON is treated as absent and
\* purged: after the restore effect no access or refresh token is held,
\* isAuthenticated is false and none of the three keys is left in
\* sessionStorage.
C24_MalformedSessionPurged ==
    [][(/\ ~inIframe
        /\ sessionStorage["supreme_user"] # Null
        /\ \/ sessionStorage["supreme_user"] = Undefined
           \/ ~Parsable(sessionStorage["supreme_user"])
        /\ Mount)
       => /\ accessTokenRef' = Null
          /\ refreshTokenRef' = Null
          /\ ~isAuthenticated'
          /\ sessionStorage' = EmptyStore]_vars

\* C25: a JWT_TOKEN_RESPONSE with an error and no token sets error to the
\* message's error and authenticates nothing: the tokens, the user,
\* isAuthenticated, the balance and the three session keys are unchanged,
\* nothing is posted and the retry interval is left as it is.
C25_TokenErrorSurfaced ==
    [][\A e \in Events :
          (/\ e.type = "JWT_TOKEN_RESPONSE" /\ e.token = Null /\ e.error # Null
           /\ HandleMessage(e))
          => /\ error' = e.error
             /\ UNCHANGED <<accessTokenRef, refreshTokenRef, user, isAuthenticated,
                            balance, sessionStorage, posted, readyUser,
                            retryIntervalRef, retryCountRef>>]_vars

\* C25 witness: with U1's session held, an error response was handled; the
\* error is shown and the session is as it was.
C25_Witness ==
    /\ error = "denied"
    /\ accessTokenRef = "A1" /\ refreshTokenRef = "R1"
    /\ user = "U1"
    /\ isAuthenticated
    /\ sessionStorage = StoreOf("A1", "R1", JSONstringify("U1"))
    /\ handled = 2

\* the message types handleMessage knows
KnownTypes == {"JWT_TOKEN_RESPONSE", "REFRESH_BALANCE", "CLEAR_STORAGE",
               "CLEAR_SESSION", "GET_STATUS"}

\* C26: a message of any other type, or without a type, is a no-op of the
\* hook's handler: the tokens, the user, isAuthenticated, balance, error and
\* sessionStorage are unchanged, nothing is posted to the parent, no request
\* is started and the retry interval is untouched.
C26_UnknownTypeIsNoOp ==
    [][\A e \in Events :
          (e.type \notin KnownTypes /\ HandleMessage(e))
          => UNCHANGED <<accessTokenRef, refreshTokenRef, user, isAuthenticated,
                         balance, error, sessionStorage, posted, readyUser, calls,
                         retryIntervalRef, retryCountRef, loading>>]_vars

\* C26 witness: the embedded hook has handled messages, of unknown type for
\* one, and is as it was after the mount: unauthenticated, no error, no
\* request started, no status or ready message posted.
C26_Witness ==
    /\ inIframe
    /\ listening
    /\ handled = MaxMsgs
    /\ accessTokenRef = Null
    /\ ~isAuthenticated
    /\ error = Null
    /\ sessionStorage = EmptyStore
    /\ posted["STATUS_RESPONSE"] = 0
    /\ posted["CREDIT_SYSTEM_READY"] = 0
    /\ \A c \in CallIds : calls[c].pc = "idle"

\* C29: the STATUS_RESPONSE posted for a GET_STATUS carries the
\* isAuthenticated, user and balance that are current when the message is
\* handled, also when a JWT_TOKEN_RESPONSE or a CLEAR_SESSION was handled just
\* before and the component has not rendered again.
C29_StatusIsCurrent ==
    [][\A e \in Events :
          (e.type = "GET_STATUS" /\ HandleMessage(e))
          => lastStatus' = [isAuthenticated |-> isAuthenticated, user |-> user,
                            balance |-> balance]]_vars

\* C27: once the session has been cleared (no access token is held any
\* more), the response to a request that was sent under the cleared session
\* does not change the cached balance, and the balance of a cleared,
\* unauthenticated session is 0.
C27_StaleResponseIgnored ==
    [][/\ \A c \in CallIds, x \in SessionResponseCases :
             (/\ accessTokenRef = Null
              /\ calls[c].sentTok # Null
              /\ FirstResponse(c, x[1], x[2]) \/ RetryResponse(c, x[1], x[2]))
             => balance' = balance
       /\ (accessTokenRef' = Null /\ ~isAuthenticated') => balance' = 0]_vars

\* C28: between two event handlers of the hook, isAuthenticated is true
\* exactly when an access token is held in accessTokenRef.
C28_AuthenticatedIffToken ==
    isAuthenticated <=> (accessTokenRef # Null)

====
